---- MODULE Spec2Model ----
(***************************************************************************)
(* Model of src/service-worker.js: the cache-first service worker of Block *)
(* Canvas.  The state is the origin's CacheStorage (named stores in        *)
(* creation order), the worker's lifecycle, the fetch events whose         *)
(* respondWith promise is still pending, and the detached promise chains   *)
(* (cache puts, background refreshes, the clearCache deletion).            *)
(*                                                                         *)
(* A URL is the sequence of the tokens of its text: scheme, host, then the *)
(* pieces of the path.  A regular expression of the script is a token and  *)
(* whether it is anchored at the end of the URL ($).                       *)
(***************************************************************************)
EXTENDS Naturals, Sequences, FiniteSets, TLC

\* ---------------------------------------------------------------- bounds
\* The model precaches the first ManifestLen entries of PRECACHE_URLS.
ManifestLen == 2
\* Fetch events dispatched to the worker in one run.
MaxFetchEvents == 2

\* ------------------------------------------------------------- constants
CACHE_NAME == "block-canvas-telegram-v1"

\* A store left behind by the generation this worker supersedes.
OLD_CACHE_NAME == "block-canvas-telegram-v0"

\* self.location.origin
SelfOrigin == <<"https://", "game.example">>

\* new URL(path, self.location): a path of the script as a full URL.
Resolve(path) == SelfOrigin \o path

PRECACHE_URLS ==
    << <<"/">>,
       <<"/index", ".html">>,
       <<"/style", ".css">>,
       <<"/application", ".js">>,
       <<"/src/polyfills.bundle", ".js">>,
       <<"/src/system.bundle", ".js">>,
       <<"/src/import-map", ".json">>,
       <<"/index", ".js">> >>

\* All of CACHEABLE_PATTERNS are anchored at the end of the URL.
CACHEABLE_PATTERNS ==
    << [tok |-> ".js",   anchored |-> TRUE],
       [tok |-> ".css",  anchored |-> TRUE],
       [tok |-> ".png",  anchored |-> TRUE],
       [tok |-> ".jpg",  anchored |-> TRUE],
       [tok |-> ".webp", anchored |-> TRUE],
       [tok |-> ".mp3",  anchored |-> TRUE],
       [tok |-> ".ogg",  anchored |-> TRUE],
       [tok |-> ".json", anchored |-> TRUE],
       [tok |-> ".wasm", anchored |-> TRUE] >>

NEVER_CACHE ==
    << [tok |-> "telegram.org",    anchored |-> FALSE],
       [tok |-> "tganalytics.xyz", anchored |-> FALSE],
       [tok |-> "api.",            anchored |-> FALSE],
       [tok |-> ".php",            anchored |-> TRUE],
       [tok |-> "cloudflare",      anchored |-> FALSE],
       [tok |-> "ws:",             anchored |-> FALSE],
       [tok |-> "wss:",            anchored |-> FALSE] >>

\* pattern.test(url)
Test(pattern, url) ==
    IF pattern.anchored
    THEN url[Len(url)] = pattern.tok
    ELSE \E i \in 1..Len(url) : url[i] = pattern.tok

\* patterns.some(pattern => pattern.test(url))
Some(patterns, url) == \E i \in 1..Len(patterns) : Test(patterns[i], url)

\* new URL(request.url).origin
UrlOrigin(url) == <<url[1], url[2]>>

\* -------------------------------------------------------------- responses
\* What a promise for a response can settle to.  Undefined is the value of
\* caches.match on a miss; Rejected stands for a rejected promise.
Undefined == [status |-> 0, type |-> "undefined", body |-> ""]
Rejected  == [status |-> 0, type |-> "rejected", body |-> ""]

\* new Response('Offline', { status: 503 })
OfflineResponse == [status |-> 503, type |-> "default", body |-> "Offline"]

\* Responses the network can produce for a same-origin GET: the resource,
\* the resource after a redirect to another origin (type cors), and a
\* not-found page.
NetworkResponses ==
    { [status |-> 200, type |-> "basic", body |-> "rev1"],
      [status |-> 200, type |-> "cors",  body |-> "cdn"],
      [status |-> 404, type |-> "basic", body |-> "notfound"] }

\* fetch() settles to a response or rejects with a network error.
FetchOutcomes == NetworkResponses \cup {Rejected}

\* response.ok, as Cache.add requires it (a 206 is refused as well).
IsOk(response) ==
    /\ response.status >= 200
    /\ response.status <= 299
    /\ response.status # 206

\* ---------------------------------------------------------------- requests
RootUrl     == Resolve(<<"/">>)
IndexUrl    == Resolve(<<"/index", ".html">>)
SettingsUrl == Resolve(<<"/src/settings", ".json">>)
FaviconUrl  == Resolve(<<"/favicon", ".ico">>)
BeaconUrl   == Resolve(<<"/", "cloudflare", "/beacon", ".js">>)
CdnUrl      == <<"https://", "cdn.example", "/lib", ".js">>

RequestUrls == {RootUrl, SettingsUrl, FaviconUrl, BeaconUrl, CdnUrl}

\* The requests the pages send: the navigation to the application, its
\* resources, a form post, an analytics beacon and a library from a CDN.
Requests ==
    { [method |-> "GET",  url |-> RootUrl,     mode |-> "navigate"],
      [method |-> "GET",  url |-> SettingsUrl, mode |-> "cors"],
      [method |-> "GET",  url |-> FaviconUrl,  mode |-> "cors"],
      [method |-> "POST", url |-> SettingsUrl, mode |-> "cors"],
      [method |-> "GET",  url |-> BeaconUrl,   mode |-> "cors"],
      [method |-> "GET",  url |-> CdnUrl,      mode |-> "cors"] }

Manifest == SubSeq(PRECACHE_URLS, 1, ManifestLen)
ManifestUrls == {Resolve(Manifest[i]) : i \in 1..Len(Manifest)}

\* Every key a store of the model can hold.
Keys == ManifestUrls \cup RequestUrls \cup {IndexUrl}

StoreNames == {CACHE_NAME, OLD_CACHE_NAME}
EmptyStore == [k \in Keys |-> Undefined]


NoRequest == [method |-> "", url |-> <<>>, mode |-> ""]

\* ------------------------------------------------------------------- state
VARIABLES
    state,            \* lifecycle of this worker generation
    skipWaitingFlag,  \* set by self.skipWaiting()
    cacheNames,       \* CacheStorage: the names of the stores, oldest first
    content,          \* CacheStorage: name -> key -> stored response
    install,          \* the install handler's promise chain
    activate,         \* the activate handler's promise chain
    inflight,         \* fetch events whose respondWith promise is pending
    tasks,            \* detached chains of fetchAndCache / updateCacheInBackground
    clearPending,     \* a caches.delete(CACHE_NAME) of clearCache is in flight
    events,           \* fetch events dispatched so far
    last              \* what the step just taken handled or delivered

vars == <<state, skipWaitingFlag, cacheNames, content, install, activate,
          inflight, tasks, clearPending, events, last>>

\* The record of a step that handled an event other than a fetch event.
Handled(ev, data) ==
    [ev |-> ev, data |-> data, req |-> NoRequest, via |-> "", fetched |-> FALSE,
     resp |-> Undefined]

\* A step that continues a promise chain and delivers nothing.
Quiet == Handled("none", "")

\* ---------------------------------------------------------- CacheStorage
\* caches.has(name)
Has(names, name) == \E i \in 1..Len(names) : names[i] = name

\* caches.open(name): the store is created, last in order, when absent.
CachesOpen(names, name) == IF Has(names, name) THEN names ELSE Append(names, name)

\* caches.delete(name)
DeleteName(names, name) == SelectSeq(names, LAMBDA n : n # name)
DeleteContent(cont, name) == [cont EXCEPT ![name] = EmptyStore]

\* Variant: the store created last answers first.
CachesMatchLast(names, cont, url) ==
    LET holds == {i \in 1..Len(names) : cont[names[i]][url] # Undefined}
    IN  IF holds = {} THEN Undefined
        ELSE cont[names[CHOOSE i \in holds : \A j \in holds : i >= j]][url]

\* caches.match(url): the stores are searched in creation order and the
\* first one that holds the key answers; undefined when none does.
CachesMatch(names, cont, url) ==
    LET holds == {i \in 1..Len(names) : cont[names[i]][url] # Undefined}
    IN  IF holds = {} THEN Undefined
        ELSE cont[names[CHOOSE i \in holds : \A j \in holds : i <= j]][url]

\* cache.put(request, response) through a handle: a handle whose store has
\* been deleted from CacheStorage writes to an orphan nobody can look up.
CachePut(cont, handle, url, response) ==
    IF handle = "live" THEN [cont EXCEPT ![CACHE_NAME][url] = response] ELSE cont

\* The keys a store holds.
StoredKeys(cont, name) == {k \in Keys : cont[name][k] # Undefined}

\* Handles to the store of CACHE_NAME lose it when that store is deleted.
Orphan(handle) == IF handle = "live" THEN "orphan" ELSE handle

\* ------------------------------------------------------------------- Init
\* What the superseded generation stored, when it was there.
OldEntry == [status |-> 200, type |-> "basic", body |-> "rev0"]
OldStore == [k \in Keys |-> IF k \in {IndexUrl, FaviconUrl} THEN OldEntry ELSE Undefined]

\* The script has been evaluated.  CacheStorage holds what the superseded
\* generation left: nothing, or its store.  The field found of install is
\* history: the keys the store held when Install opened it.
Init ==
    /\ state = "parsed"
    /\ skipWaitingFlag = FALSE
    /\ \/ /\ cacheNames = <<>>
          /\ content = [n \in StoreNames |-> EmptyStore]
       \/ /\ cacheNames = <<OLD_CACHE_NAME>>
          /\ content = [n \in StoreNames |-> IF n = OLD_CACHE_NAME THEN OldStore ELSE EmptyStore]
    /\ install = [pc |-> "idle", handle |-> "none", attempted |-> {}, added |-> {},
                  found |-> {}]
    /\ activate = [pc |-> "idle", listed |-> {}, pending |-> {}, failed |-> FALSE]
    /\ inflight = {}
    /\ tasks = {}
    /\ clearPending = FALSE
    /\ events = 0
    /\ last = Quiet

\* ---------------------------------------------------------------- install
\* cache.add / cache.addAll store a response only when it is ok.
AddAccepts(outcome) == outcome # Rejected /\ IsOk(outcome)

\* The install event is dispatched: caches.open(CACHE_NAME) is issued.
InstallEvent ==
    /\ state = "parsed"
    /\ state' = "installing"
    /\ install' = [install EXCEPT !.pc = "open"]
    /\ last' = Handled("install", "")
    /\ UNCHANGED <<skipWaitingFlag, cacheNames, content, activate, inflight, tasks, clearPending, events>>

\* caches.open settles.  A rejection rejects waitUntil: the worker is discarded.
InstallOpen ==
    /\ install.pc = "open"
    /\ \E ok \in BOOLEAN :
          IF ok
          THEN /\ cacheNames' = CachesOpen(cacheNames, CACHE_NAME)
               /\ install' = [install EXCEPT !.pc = "addAll", !.handle = "live",
                                             !.found = StoredKeys(content, CACHE_NAME)]
               /\ state' = state
          ELSE /\ cacheNames' = cacheNames
               /\ install' = [install EXCEPT !.pc = "rejected"]
               /\ state' = "redundant"
    /\ UNCHANGED <<skipWaitingFlag, content, activate, inflight, tasks, clearPending, events>>
    /\ last' = Quiet

\* The keys the bulk insert writes: all of them, or none.
AddAllWrites(outcome) ==
    IF \A i \in 1..Len(Manifest) : AddAccepts(outcome[i])
    THEN 1..Len(Manifest)
    ELSE {}

\* cache.addAll(PRECACHE_URLS) settles: every URL is fetched, and the batch
\* is written only when every response is ok; otherwise it rejects and the
\* catch handler starts one cache.add per URL.
InstallAddAll ==
    /\ install.pc = "addAll"
    /\ \E outcome \in [1..Len(Manifest) -> FetchOutcomes] :
          LET writes == AddAllWrites(outcome) IN
          /\ content' = [content EXCEPT ![CACHE_NAME] =
                            [k \in Keys |->
                                IF install.handle = "live"
                                   /\ \E i \in writes : Resolve(Manifest[i]) = k
                                THEN outcome[CHOOSE i \in writes : Resolve(Manifest[i]) = k]
                                ELSE content[CACHE_NAME][k]]]
          /\ install' = IF writes # {}
                        THEN [install EXCEPT !.pc = "settled"]
                        ELSE [install EXCEPT !.pc = "adding"]
    /\ UNCHANGED <<state, skipWaitingFlag, cacheNames, activate, inflight, tasks, clearPending, events>>
    /\ last' = Quiet

\* Variant: an add that fails evicts the entry its key held.
AddResultEvicting(cont, handle, url, outcome) ==
    CachePut(cont, handle, url, IF AddAccepts(outcome) THEN outcome ELSE Undefined)

\* What the individual cache.add of one URL leaves under its key.
AddResult(cont, handle, url, outcome) ==
    IF AddAccepts(outcome) THEN CachePut(cont, handle, url, outcome) ELSE cont

\* cache.add(url).catch(...) settles for one URL of the manifest.
InstallAdd(i) ==
    /\ install.pc = "adding"
    /\ i \notin install.attempted
    /\ \E outcome \in FetchOutcomes :
          /\ content' = AddResult(content, install.handle, Resolve(Manifest[i]), outcome)
          /\ install' = [install EXCEPT
                            !.attempted = @ \cup {i},
                            !.added = IF AddAccepts(outcome) THEN @ \cup {i} ELSE @]
    /\ UNCHANGED <<state, skipWaitingFlag, cacheNames, activate, inflight, tasks, clearPending, events>>
    /\ last' = Quiet

\* Variant: the chain goes on without waiting for the individual adds.
PrecacheSettledEarly(inst) == inst.pc \in {"settled", "adding"}

\* Promise.all of the individual adds waits for every one of them.
PrecacheSettled(inst) ==
    \/ inst.pc = "settled"
    \/ inst.pc = "adding" /\ inst.attempted = 1..Len(Manifest)

\* .then(() => self.skipWaiting()): waitUntil fulfils, the worker is installed.
InstallSkipWaiting ==
    /\ state = "installing"
    /\ PrecacheSettled(install)
    /\ skipWaitingFlag' = TRUE
    /\ state' = "installed"
    /\ install' = [install EXCEPT !.pc = IF install.pc = "settled" THEN "done" ELSE "degraded"]
    /\ UNCHANGED <<cacheNames, content, activate, inflight, tasks, clearPending, events>>
    /\ last' = Quiet

\* The manifest URLs whose response a run of Install stored: all of them
\* when the bulk insert fulfilled, else those of the adds that fulfilled.
AcceptedKeys(inst) ==
    {Resolve(Manifest[i]) :
        i \in IF inst.pc \in {"settled", "done"} THEN 1..Len(Manifest) ELSE inst.added}

\* The script is registered again with CACHE_NAME as it is (an update that
\* keeps the name, or the retry after an install that failed): a new
\* generation is evaluated and its install handler will run on the store
\* the run before it left.
Reinstall ==
    /\ state \in {"installed", "redundant"}
    /\ state' = "parsed"
    /\ skipWaitingFlag' = FALSE
    /\ install' = [pc |-> "idle", handle |-> "none", attempted |-> {}, added |-> {},
                   found |-> {}]
    /\ UNCHANGED <<cacheNames, content, activate, inflight, tasks, clearPending, events>>
    /\ last' = Quiet

\* Install alone, run after run on the same store.
NextInstall ==
    \/ InstallEvent
    \/ InstallOpen
    \/ InstallAddAll
    \/ \E i \in 1..Len(Manifest) : InstallAdd(i)
    \/ InstallSkipWaiting
    \/ Reinstall

SpecInstall == Init /\ [][NextInstall]_vars

\* --------------------------------------------------------------- activate
\* Variant: the filter is inverted (name === CACHE_NAME).
SupersededInverted(names) == {names[i] : i \in {j \in 1..Len(names) : names[j] = CACHE_NAME}}

\* cacheNames.filter(name => name !== CACHE_NAME)
Superseded(names) == {names[i] : i \in {j \in 1..Len(names) : names[j] # CACHE_NAME}}

\* The activate event is dispatched once the worker is installed and nothing
\* holds it in waiting: caches.keys() is issued.
ActivateEvent ==
    /\ state = "installed"
    /\ skipWaitingFlag
    /\ state' = "activating"
    /\ activate' = [activate EXCEPT !.pc = "keys"]
    /\ last' = Handled("activate", "")
    /\ UNCHANGED <<skipWaitingFlag, cacheNames, content, install, inflight, tasks, clearPending, events>>

\* caches.keys() settles: one caches.delete is issued per superseded name.
ActivateKeys ==
    /\ activate.pc = "keys"
    /\ activate' = [activate EXCEPT !.pc = "deleting",
                                     !.listed = {cacheNames[i] : i \in 1..Len(cacheNames)},
                                     !.pending = Superseded(cacheNames)]
    /\ UNCHANGED <<state, skipWaitingFlag, cacheNames, content, install, inflight, tasks,
                   clearPending, events>>
    /\ last' = Quiet

\* One caches.delete(name) settles; a rejection rejects the Promise.all.
ActivateDelete(name) ==
    /\ name \in activate.pending
    /\ \E ok \in BOOLEAN :
          IF ok
          THEN /\ cacheNames' = DeleteName(cacheNames, name)
               /\ content' = DeleteContent(content, name)
               /\ activate' = [activate EXCEPT !.pending = @ \ {name}]
          ELSE /\ cacheNames' = cacheNames
               /\ content' = content
               /\ activate' = [activate EXCEPT !.pending = @ \ {name}, !.failed = TRUE]
    /\ UNCHANGED <<state, skipWaitingFlag, install, inflight, tasks, clearPending, events>>
    /\ last' = Quiet

\* Variant: the deletions are only waited for (Promise.allSettled).
DeletionsSettled(act) == act.pending = {}

\* Promise.all(...) of the deletions fulfils: each has settled, none rejected.
DeletionsFulfilled(act) == act.pending = {} /\ ~act.failed

\* .then(() => self.clients.claim()): every deletion has fulfilled.
ActivateClaim ==
    /\ activate.pc = "deleting"
    /\ DeletionsFulfilled(activate)
    /\ activate' = [activate EXCEPT !.pc = "claimed"]
    /\ state' = "activated"
    /\ UNCHANGED <<skipWaitingFlag, cacheNames, content, install, inflight, tasks,
                   clearPending, events>>
    /\ last' = Quiet

\* A deletion rejected: waitUntil rejects, clients.claim() is never called;
\* the worker becomes active all the same.
ActivateReject ==
    /\ activate.pc = "deleting"
    /\ activate.failed
    /\ activate' = [activate EXCEPT !.pc = "rejected"]
    /\ state' = "activated"
    /\ UNCHANGED <<skipWaitingFlag, cacheNames, content, install, inflight, tasks,
                   clearPending, events>>
    /\ last' = Quiet

\* ---------------------------------------------------------------- message
MessageData == {"skipWaiting", "clearCache", "ping"}

\* Variant: every message calls self.skipWaiting().
IsSkipWaitingAlways(data) == TRUE

\* event.data === 'skipWaiting'
IsSkipWaiting(data) == data = "skipWaiting"

\* Variant: every message that is not 'skipWaiting' purges the store.
IsClearCacheElse(data) == data # "skipWaiting"

\* event.data === 'clearCache'
IsClearCache(data) == data = "clearCache"

\* The message listener runs for event.data = data.
Message(data) ==
    /\ state \in {"installing", "installed", "activating", "activated"}
    /\ skipWaitingFlag' = (skipWaitingFlag \/ IsSkipWaiting(data))
    /\ clearPending' = (clearPending \/ IsClearCache(data))
    /\ last' = Handled("message", data)
    /\ UNCHANGED <<state, cacheNames, content, install, activate, inflight, tasks, events>>

\* caches.delete(CACHE_NAME) of clearCache settles: the store is gone, and
\* the handle Install opened on it now refers to an orphan.
ClearSettle ==
    /\ clearPending
    /\ clearPending' = FALSE
    /\ cacheNames' = DeleteName(cacheNames, CACHE_NAME)
    /\ content' = DeleteContent(content, CACHE_NAME)
    /\ install' = [install EXCEPT !.handle = Orphan(@)]
    /\ UNCHANGED <<state, skipWaitingFlag, activate, inflight, tasks, events>>
    /\ last' = Quiet

\* ------------------------------------------------------------------ fetch
\* Variant: the method is not looked at.
SkipNothing(req) == FALSE

\* request.method !== 'GET'
SkipNonGet(req) == req.method # "GET"

\* Variant: the exclusion patterns are tested after the cacheable ones,
\* so a URL that is cacheable is not excluded.
NeverCachedUnlessCacheable(req) ==
    Some(NEVER_CACHE, req.url) /\ ~Some(CACHEABLE_PATTERNS, req.url)

\* NEVER_CACHE.some(pattern => pattern.test(request.url))
NeverCached(req) == Some(NEVER_CACHE, req.url)

\* url.origin !== self.location.origin
CrossOrigin(req) == UrlOrigin(req.url) # SelfOrigin

\* The three early returns of the fetch listener, in order.
PassesThrough(req) == SkipNonGet(req) \/ NeverCached(req) \/ CrossOrigin(req)

\* Variant: every request is given the navigation fallback.
IsNavigateAlways(req) == TRUE

\* request.mode === 'navigate'
IsNavigate(req) == req.mode = "navigate"

\* Variant: the fallback looks up '/' instead.
FallbackUrlRoot == Resolve(<<"/">>)

\* The key of the offline fallback: caches.match('/index.html')
FallbackUrl == Resolve(<<"/index", ".html">>)

\* Variant: the type of the response is not looked at.
IsValidAnyType(response) == response.status = 200

\* fetchAndCache: response.status === 200 && response.type === 'basic'
IsValid(response) == response.status = 200 /\ response.type = "basic"

\* fetchAndCache: CACHEABLE_PATTERNS.some(pattern => pattern.test(request.url))
IsCacheable(url) == Some(CACHEABLE_PATTERNS, url)

\* updateCacheInBackground: response && response.status === 200
RefreshAccepts(response) == response.status = 200

\* respondWith's promise settles: the event is answered.
Answer(r, via, resp) ==
    /\ inflight' = inflight \ {r}
    /\ last' = [ev |-> "fetch", data |-> "", req |-> r.req, via |-> via,
                fetched |-> r.fetched, resp |-> resp]

\* The .catch of the fetch listener.
Catch(r) ==
    IF IsNavigate(r.req)
    THEN /\ inflight' = (inflight \ {r}) \cup {[r EXCEPT !.pc = "fallback"]}
         /\ last' = Quiet
    ELSE Answer(r, "offline", OfflineResponse)

\* Variant: one fetch at a time; a continuation waits while the fetch of
\* another request or of a background refresh is outstanding.
SettlesInTurn(r, pc) ==
    /\ r \in inflight
    /\ r.pc = pc
    /\ \A q \in inflight \ {r} : q.pc # "fetch"
    /\ \A t \in tasks : t.stage # "fetch"

\* The promise the chain of the event r waits on at pc can settle: every
\* event has a chain of its own, and none waits for another.
Settles(r, pc) == r \in inflight /\ r.pc = pc

\* The fetch listener runs for a request: it returns without responding, or
\* calls respondWith on the chain that starts with caches.match(request).
FetchEvent(req) ==
    /\ state = "activated"
    /\ events < MaxFetchEvents
    /\ events' = events + 1
    /\ \A r \in inflight : r.req # req
    /\ IF PassesThrough(req)
       THEN /\ inflight' = inflight
            /\ last' = [ev |-> "fetch", data |-> "", req |-> req, via |-> "passthrough",
                        fetched |-> FALSE, resp |-> Undefined]
       ELSE /\ inflight' = inflight \cup {[req |-> req, pc |-> "match", fetched |-> FALSE]}
            /\ last' = Quiet
    /\ UNCHANGED <<state, skipWaitingFlag, cacheNames, content, install, activate, tasks,
                   clearPending>>

\* caches.match(request) settles: a hit starts updateCacheInBackground and
\* answers with the stored response, a miss calls fetchAndCache, a rejection
\* goes to the catch handler.
MatchSettle(r) ==
    /\ Settles(r, "match")
    /\ \E ok \in BOOLEAN :
          LET cachedResponse == CachesMatch(cacheNames, content, r.req.url)
              refresh == [src |-> "updateCacheInBackground", url |-> r.req.url,
                          resp |-> Undefined, stage |-> "fetch"]
          IN  IF ~ok
              THEN Catch(r) /\ tasks' = tasks
              ELSE IF cachedResponse # Undefined
              THEN /\ tasks' = tasks \cup {refresh}
                   /\ Answer(r, "hit", cachedResponse)
              ELSE /\ inflight' = (inflight \ {r}) \cup
                                   {[r EXCEPT !.pc = "fetch", !.fetched = TRUE]}
                   /\ last' = Quiet
                   /\ tasks' = tasks
    /\ UNCHANGED <<state, skipWaitingFlag, cacheNames, content, install, activate,
                   clearPending, events>>

\* fetchAndCache: fetch(request) settles.  The response is returned as it is;
\* a valid response of a cacheable URL also starts a detached open-and-put of
\* its clone.  A network error goes to the catch handler.
FetchSettle(r) ==
    /\ Settles(r, "fetch")
    /\ \E response \in FetchOutcomes :
          LET put == [src |-> "fetchAndCache", url |-> r.req.url,
                      resp |-> response, stage |-> "open"]
          IN  IF response = Rejected
              THEN Catch(r) /\ tasks' = tasks
              ELSE IF IsValid(response) /\ IsCacheable(r.req.url)
              THEN /\ tasks' = tasks \cup {put}
                   /\ Answer(r, "network", response)
              ELSE /\ tasks' = tasks
                   /\ Answer(r, "network", response)
    /\ UNCHANGED <<state, skipWaitingFlag, cacheNames, content, install, activate,
                   clearPending, events>>

\* The catch handler's caches.match('/index.html') settles; respondWith gets
\* whatever it settles to.
FallbackSettle(r) ==
    /\ Settles(r, "fallback")
    /\ \E ok \in BOOLEAN :
          Answer(r, "fallback",
                 IF ok THEN CachesMatch(cacheNames, content, FallbackUrl) ELSE Rejected)
    /\ UNCHANGED <<state, skipWaitingFlag, cacheNames, content, install, activate, tasks,
                   clearPending, events>>

\* --------------------------------------------------------- detached chains
\* updateCacheInBackground: fetch(request) settles.  A response with status
\* 200 goes on to be stored; anything else, and a network error, ends it.
RefreshSettle(t) ==
    /\ t \in tasks
    /\ t.stage = "fetch"
    /\ \E response \in FetchOutcomes :
          IF response # Rejected /\ RefreshAccepts(response)
          THEN tasks' = (tasks \ {t}) \cup {[t EXCEPT !.stage = "open", !.resp = response]}
          ELSE tasks' = tasks \ {t}
    /\ UNCHANGED <<state, skipWaitingFlag, cacheNames, content, install, activate, inflight,
                   clearPending, events>>
    /\ last' = Quiet

\* caches.open(CACHE_NAME).then(cache => cache.put(request, response)) of a
\* detached chain settles; nothing catches a rejection of the open.  The open
\* and the put are one step: a deletion of the store between them would make
\* the put write to an orphan, which leaves CacheStorage as a put made
\* before the deletion does.
TaskOpenPut(t) ==
    /\ t \in tasks
    /\ t.stage = "open"
    /\ \E ok \in BOOLEAN :
          IF ok
          THEN /\ cacheNames' = CachesOpen(cacheNames, CACHE_NAME)
               /\ content' = CachePut(content, "live", t.url, t.resp)
          ELSE /\ cacheNames' = cacheNames
               /\ content' = content
    /\ tasks' = tasks \ {t}
    /\ UNCHANGED <<state, skipWaitingFlag, install, activate, inflight,
                   clearPending, events>>
    /\ last' = Quiet

\* ------------------------------------------------------------------- Next
Next ==
    \/ InstallEvent
    \/ InstallOpen
    \/ InstallAddAll
    \/ \E i \in 1..Len(Manifest) : InstallAdd(i)
    \/ InstallSkipWaiting
    \/ ActivateEvent
    \/ ActivateKeys
    \/ \E name \in StoreNames : ActivateDelete(name)
    \/ ActivateClaim
    \/ ActivateReject
    \/ \E data \in MessageData : Message(data)
    \/ ClearSettle
    \/ \E req \in Requests : FetchEvent(req)
    \/ \E r \in inflight : MatchSettle(r)
    \/ \E r \in inflight : FetchSettle(r)
    \/ \E r \in inflight : FallbackSettle(r)
    \/ \E t \in tasks : RefreshSettle(t)
    \/ \E t \in tasks : TaskOpenPut(t)

Spec == Init /\ [][Next]_vars


\* ================================================================== claims

\* In this step respondWith's promise of the in-flight event r settles.
Answered(r) == r \in inflight /\ \A q \in inflight' : q.req # r.req

\* C1: every intercepted request that settles is answered with a cached
\* response, the network response, the stored root document (navigations
\* only) or the synthetic 503 (other requests only); respondWith is never
\* resolved with no response and never rejected.
C1_AlwaysAnswered ==
    (last.ev = "fetch" /\ last.via # "passthrough") =>
        /\ last.resp \notin {Undefined, Rejected}
        /\ last.via \in {"hit", "network", "fallback", "offline"}
        /\ last.via = "fallback" => IsNavigate(last.req)
        /\ last.via = "offline" => ~IsNavigate(last.req) /\ last.resp = OfflineResponse

\* C2: when the network response of a cacheable URL, status 200 and type
\* basic, is handed to the caller, a match for the request already returns
\* a stored entry equal to it.
C2_StoredWhenServed ==
    [][\A r \in inflight :
          (Answered(r) /\ r.pc = "fetch" /\ last'.via = "network"
              /\ IsValid(last'.resp) /\ IsCacheable(r.req.url))
          => CachesMatch(cacheNames', content', r.req.url) = last'.resp]_vars

\* C3, as the spec states it: once Activate has completed, the store names
\* are exactly the current StoreName.
C3_ExactlyCurrent ==
    activate.pc = "claimed" => cacheNames = <<CACHE_NAME>>

\* C3, amended: once Activate has completed no name but the current
\* StoreName exists, and the current store goes away only when the deletion
\* of a clearCache command settles (a later open creates it again).
C3_OnlyCurrent ==
    /\ [](activate.pc = "claimed" => cacheNames \in {<<>>, <<CACHE_NAME>>})
    /\ [][(Has(cacheNames, CACHE_NAME) /\ ~Has(cacheNames', CACHE_NAME))
             => (clearPending /\ ~clearPending')]_vars

\* C3: Activate listed and deleted the superseded store, requests were
\* handled afterwards and a put wrote to the current store.
C3_Witness ==
    /\ activate.pc = "claimed"
    /\ OLD_CACHE_NAME \in activate.listed
    /\ cacheNames = <<CACHE_NAME>>
    /\ events = MaxFetchEvents
    /\ SettingsUrl \in StoredKeys(content, CACHE_NAME)

\* C4: every entry of every store has status 200 and type basic.
C4_OnlyValidEntries ==
    \A n \in StoreNames : \A k \in StoredKeys(content, n) : IsValid(content[n][k])

\* C5: a request is answered from the cache only when the current store
\* holds its key.
C5_CurrentStoreOnly ==
    [][\A r \in inflight :
          (Answered(r) /\ r.pc = "match" /\ last'.via = "hit")
          => (Has(cacheNames, CACHE_NAME) /\ r.req.url \in StoredKeys(content, CACHE_NAME))]_vars

C7_OfflineResponse ==
    [][\A r \in inflight :
          (r.pc = "fetch" /\ ~(r.req.mode = "navigate") /\ r \notin inflight'
              /\ ~(Answered(r) /\ last'.via = "network"))
          => /\ Answered(r)
             /\ last'.via = "offline"
             /\ last'.resp.status = 503
             /\ \A n \in StoreNames : \A k \in Keys : content'[n][k] # last'.resp
             /\ UNCHANGED <<cacheNames, content, tasks>>]_vars

\* C7: a request that is no navigation missed the cache, its fetch failed
\* and it got the 503.
C7_Witness ==
    /\ last.via = "offline"
    /\ last.fetched
    /\ last.req.mode # "navigate"
    /\ last.resp = OfflineResponse

\* C8, as the spec states it: when Install completes after the bulk insert
\* failed, the current store holds exactly the manifest URLs whose
\* individual add succeeded.
C8_DegradedPrecache ==
    [][(state = "installing" /\ state' = "installed" /\ install'.pc = "degraded")
          => StoredKeys(content', CACHE_NAME)
                = {Resolve(Manifest[i]) : i \in install'.added}]_vars

\* C8, amended: a failed bulk insert writes nothing; Install then completes
\* and signals skip-waiting only after every manifest URL was attempted; and
\* unless a clearCache command deleted the store while Install ran, the
\* current store then holds exactly the URLs whose individual add succeeded.
C8_DegradedPrecacheUnlessPurged ==
    /\ [][(install.pc = "addAll" /\ install'.pc = "adding") => content' = content]_vars
    /\ [][(state = "installing" /\ state' = "installed" /\ install.pc = "adding")
             => /\ install.attempted = 1..Len(Manifest)
                /\ skipWaitingFlag'
                /\ install.handle = "live"
                      => /\ Has(cacheNames', CACHE_NAME)
                         /\ StoredKeys(content', CACHE_NAME)
                               = {Resolve(Manifest[i]) : i \in install.added}]_vars

\* C8: Install completed after the bulk insert failed, with some URL stored
\* and some URL skipped.
C8_Witness ==
    /\ state = "installed"
    /\ install.pc = "degraded"
    /\ install.handle = "live"
    /\ install.added # {}
    /\ install.added # 1..Len(Manifest)
    /\ StoredKeys(content, CACHE_NAME) = {Resolve(Manifest[i]) : i \in install.added}

\* C9: a fetch event for a request whose method is not GET starts no lookup,
\* no fetch and no response, and leaves the stores as they were.
C9_NonGetUntouched ==
    [][events' # events
          => /\ \A r \in inflight' \ inflight : r.req.method = "GET"
             /\ (last'.req.method # "GET" /\ inflight' = inflight)
                   => /\ last'.via = "passthrough"
                      /\ last'.resp = Undefined
                      /\ UNCHANGED <<cacheNames, content, tasks>>]_vars

\* C9: a POST went through while the current store held entries.
C9_Witness ==
    /\ last.ev = "fetch"
    /\ last.req.method = "POST"
    /\ last.via = "passthrough"
    /\ StoredKeys(content, CACHE_NAME) # {}

C11_HitUnaffectedByRefresh ==
    /\ [][\A r \in inflight :
             (Answered(r) /\ r.pc = "match" /\ last'.via = "hit")
             => LET holders == {i \in 1..Len(cacheNames) :
                                   r.req.url \in StoredKeys(content, cacheNames[i])}
                IN  /\ \E i \in holders :
                          /\ \A j \in holders : i <= j
                          /\ last'.resp = content[cacheNames[i]][r.req.url]
                    /\ UNCHANGED <<cacheNames, content>>
                    /\ \E t \in tasks' : t.stage = "fetch" /\ t.url = r.req.url]_vars
    /\ [][\A t \in tasks \ tasks' :
             (t.src = "updateCacheInBackground" /\ t.stage = "fetch")
             => /\ UNCHANGED <<cacheNames, content, inflight>>
                /\ last' = Quiet]_vars

\* C11: a request was answered from the cache with the entry of the store
\* created first while a later store holds another entry under its key,
\* and its background refresh is under way.
C11_Witness ==
    /\ last.via = "hit"
    /\ Len(cacheNames) = 2
    /\ last.resp = content[cacheNames[1]][last.req.url]
    /\ content[cacheNames[2]][last.req.url] \notin {Undefined, last.resp}
    /\ \E t \in tasks : t.stage = "fetch" /\ t.url = last.req.url

\* C12: when the deletion of a clearCache command settles the current store
\* is gone and no other store has changed; as long as the store is absent,
\* no request handled by the active worker is answered from the cache; and
\* the entries of the current store then grow only by the put of a
\* response fetched for a request, one key at a time.
C12_PurgeThenMisses ==
    /\ [][(clearPending /\ ~clearPending')
             => /\ ~Has(cacheNames', CACHE_NAME)
                /\ StoredKeys(content', CACHE_NAME) = {}
                /\ \A n \in StoreNames \ {CACHE_NAME} :
                      /\ Has(cacheNames', n) = Has(cacheNames, n)
                      /\ content'[n] = content[n]]_vars
    /\ [][\A r \in inflight :
             (state = "activated" /\ ~Has(cacheNames, CACHE_NAME)
                 /\ Answered(r) /\ r.pc = "match")
             => last'.via # "hit"]_vars
    /\ [][(state = "activated"
             /\ ~(StoredKeys(content', CACHE_NAME) \subseteq StoredKeys(content, CACHE_NAME)))
             => \E t \in tasks \ tasks' :
                   /\ t.stage = "open"
                   /\ StoredKeys(content', CACHE_NAME)
                         = StoredKeys(content, CACHE_NAME) \cup {t.url}
                   /\ content'[CACHE_NAME][t.url] = t.resp]_vars

\* C13: no step of Install removes a key of the current store, and a run of
\* Install that completes leaves in it the keys it found there together
\* with the manifest URLs whose response it stored; so a run whose stored
\* URLs are those it found, as when it repeats the outcomes of the run
\* before it, leaves the set of keys as it found it.
C13_InstallIdempotent ==
    /\ [][StoredKeys(content, CACHE_NAME) \subseteq StoredKeys(content', CACHE_NAME)]_vars
    /\ [][(state = "installing" /\ state' = "installed")
             => /\ StoredKeys(content', CACHE_NAME)
                      = install.found \cup AcceptedKeys(install')
                /\ AcceptedKeys(install') = install.found
                      => StoredKeys(content', CACHE_NAME) = install.found]_vars

\* C13: Install ran again on the store an earlier run had filled in part,
\* stored the same URLs and left the same keys.
C13_Witness ==
    /\ state = "installed"
    /\ install.found # {}
    /\ install.found # ManifestUrls
    /\ AcceptedKeys(install) = install.found
    /\ StoredKeys(content, CACHE_NAME) = install.found

\* C14: the step in which the message listener runs leaves the stores and
\* their entries as they were unless the message is 'clearCache'; for a
\* message that is neither 'skipWaiting' nor 'clearCache' it also leaves
\* the lifecycle state, the skip-waiting flag, pending deletions and every
\* promise chain as they were; and 'skipWaiting' starts no deletion.
C14_MessageFrame ==
    [][last'.ev = "message"
          => /\ UNCHANGED <<cacheNames, content, state>>
             /\ last'.data \notin {"skipWaiting", "clearCache"}
                   => UNCHANGED <<skipWaitingFlag, clearPending, install, activate,
                                  inflight, tasks, events>>
             /\ last'.data = "skipWaiting"
                   => UNCHANGED <<clearPending, install, activate, inflight, tasks>>]_vars

\* C14: the active worker, with entries in its store, handled a message it
\* does not know.
C14_Witness ==
    /\ last.ev = "message"
    /\ last.data \notin {"skipWaiting", "clearCache"}
    /\ state = "activated"
    /\ ~clearPending
    /\ StoredKeys(content, CACHE_NAME) # {}

\* C15: when the fetch made after a miss settles with a response, the
\* event is answered in that step with a response of the network, whatever
\* its status and type and whatever the URL, and a put of that very
\* response under the request's URL is started if and only if its status
\* is 200, its type is basic and the URL matches a cacheable pattern; when
\* the open-and-put of fetchAndCache settles with the store opened, the
\* current store holds that response under that URL and nothing else
\* changes.
C15_MissReturnsAndStores ==
    /\ [][\A r \in inflight :
             (Answered(r) /\ r.pc = "fetch" /\ last'.via = "network")
             => LET put == [src |-> "fetchAndCache", url |-> r.req.url,
                            resp |-> last'.resp, stage |-> "open"]
                    storable == /\ last'.resp.status = 200
                                /\ last'.resp.type = "basic"
                                /\ \E i \in 1..Len(CACHEABLE_PATTERNS) :
                                      Test(CACHEABLE_PATTERNS[i], r.req.url)
                IN  /\ last'.resp \in NetworkResponses
                    /\ last'.req = r.req
                    /\ storable => put \in tasks'
                    /\ ~storable => tasks' = tasks
                    /\ tasks' \ tasks \subseteq {put}
                    /\ UNCHANGED <<cacheNames, content>>]_vars
    /\ [][\A t \in tasks \ tasks' :
             (t.src = "fetchAndCache" /\ content' # content)
             => /\ Has(cacheNames', CACHE_NAME)
                /\ content' = [content EXCEPT ![CACHE_NAME][t.url] = t.resp]]_vars

\* C15: a miss stored the response of a cacheable URL in the current store,
\* and another miss was answered with the 404 of the network, which
\* started no put.
C15_Witness ==
    /\ last.via = "network"
    /\ last.fetched
    /\ last.resp.status = 404
    /\ tasks = {}
    /\ Has(cacheNames, CACHE_NAME)
    /\ content[CACHE_NAME][SettingsUrl] = [status |-> 200, type |-> "basic", body |-> "rev1"]

\* C16, as the spec states it: in no reachable state is skip-waiting
\* signalled unless Install has opened the store and the precache has
\* settled.
C16_SkipWaitingAfterPrecache ==
    skipWaitingFlag => (install.handle # "none" /\ install.pc \in {"done", "degraded"})

\* C16, amended: Install signals skip-waiting only after it opened the
\* store and the bulk insert fulfilled or every manifest URL was attempted;
\* the flag is raised by nothing but that step and a 'skipWaiting' message,
\* which may come while the precache is in progress; and whenever the flag
\* was raised, the generation is activated only after its precache settled.
C16_ActivationAfterPrecache ==
    /\ [][(state = "installing" /\ state' = "installed")
             => /\ install.handle # "none"
                /\ \/ install.pc = "settled"
                   \/ install.pc = "adding" /\ install.attempted = 1..Len(Manifest)
                /\ skipWaitingFlag']_vars
    /\ [][(~skipWaitingFlag /\ skipWaitingFlag')
             => \/ state = "installing" /\ state' = "installed"
                \/ last'.ev = "message" /\ last'.data = "skipWaiting"]_vars
    /\ [](state \in {"activating", "activated"} => install.pc \in {"done", "degraded"})

\* C16: a 'skipWaiting' message raised the flag while the individual adds
\* were running; they have all settled and Install is about to complete.
C16_Witness ==
    /\ state = "installing"
    /\ skipWaitingFlag
    /\ install.pc = "adding"
    /\ install.added # {}
    /\ install.attempted = 1..Len(Manifest)

\* C17: clients are claimed only when every deletion Activate issued has
\* settled and none was rejected, and then no store that Activate listed
\* under another name than the current one exists; once a deletion was
\* rejected, clients are never claimed and Activate ends rejected.
C17_ClaimAfterDeletions ==
    /\ [][(activate.pc # "claimed" /\ activate'.pc = "claimed")
             => /\ activate.pc = "deleting"
                /\ activate.pending = {}
                /\ ~activate.failed
                /\ \A n \in activate.listed \ {CACHE_NAME} :
                      /\ ~Has(cacheNames', n)
                      /\ StoredKeys(content', n) = {}]_vars
    /\ [](activate.failed => activate.pc \in {"deleting", "rejected"})
    /\ [][(activate.failed /\ activate'.pc # activate.pc) => activate'.pc = "rejected"]_vars

\* C17: Activate listed the superseded store, deleted it and has just
\* claimed the clients.
C17_Witness ==
    /\ activate.pc = "claimed"
    /\ activate.listed = {OLD_CACHE_NAME, CACHE_NAME}
    /\ cacheNames = <<CACHE_NAME>>
    /\ StoredKeys(content, OLD_CACHE_NAME) = {}
    /\ events = 0
    /\ last = Quiet

\* C18: when the open of Install rejects, Install ends rejected with no
\* manifest URL fetched, nothing stored and no skip-waiting signalled; a
\* lookup that rejects sends its request to the catch handler (the stored
\* root document for a navigation, the synthetic 503 otherwise); and when
\* the open of a detached put rejects, so that the response is not stored,
\* the step reports a failure.
C18_OpenFailureSurfaces ==
    /\ [][(install.pc = "open" /\ install'.pc # "addAll" /\ install' # install)
             => /\ install'.pc = "rejected"
                /\ install'.attempted = {}
                /\ state' = "redundant"
                /\ UNCHANGED <<cacheNames, content, skipWaitingFlag>>]_vars
    /\ [](install.pc = "rejected" => state = "redundant" /\ install.handle = "none")
    /\ [][\A r \in inflight :
             (r.pc = "match" /\ r \notin inflight'
                 /\ ~(Answered(r) /\ last'.via = "hit")
                 /\ [r EXCEPT !.pc = "fetch", !.fetched = TRUE] \notin inflight')
             => IF r.req.mode = "navigate"
                THEN [r EXCEPT !.pc = "fallback"] \in inflight'
                ELSE Answered(r) /\ last'.via = "offline"]_vars
    /\ [][\A t \in tasks \ tasks' :
             (t.stage = "open"
                 /\ ~(Has(cacheNames', CACHE_NAME) /\ content'[CACHE_NAME][t.url] = t.resp))
             => last' # Quiet]_vars

\* C19: whatever fetches are outstanding, the promise each pending event
\* waits on can settle; the step in which it does leaves every other
\* pending event as it was and either answers the event or moves its chain
\* forward (lookup, then fetch, then fallback), so an event whose own
\* lookup and fetch settle is answered; and a hit is answered in the step
\* that starts its background refresh, while that fetch is outstanding.
C19_HungFetchBlocksOnlyItself ==
    /\ [](\A r \in inflight :
             /\ r.pc = "match" => ENABLED MatchSettle(r)
             /\ r.pc = "fetch" => ENABLED FetchSettle(r)
             /\ r.pc = "fallback" => ENABLED FallbackSettle(r))
    /\ [][\A r \in inflight \ inflight' :
             /\ inflight \ {r} \subseteq inflight'
             /\ \/ Answered(r) /\ last'.req = r.req
                \/ \E q \in inflight' \ inflight :
                      /\ q.req = r.req
                      /\ inflight' = (inflight \ {r}) \cup {q}
                      /\ \/ r.pc = "match" /\ q.pc \in {"fetch", "fallback"}
                         \/ r.pc = "fetch" /\ q.pc = "fallback"]_vars
    /\ [](last.via = "hit"
             => /\ \A q \in inflight : q.req # last.req
                /\ \E t \in tasks : t.stage = "fetch" /\ t.url = last.req.url)

\* C19: a request was answered from the network while the fetch of another
\* request was outstanding.
C19_Witness ==
    /\ last.via = "network"
    /\ last.fetched
    /\ \E r \in inflight : r.pc = "fetch" /\ r.req # last.req

\* C20: in every reachable state each key of the current store is a URL of
\* the precache manifest or the URL of a GET request to the worker's origin
\* that matches no exclusion pattern and matches a cacheable pattern; and
\* no step of request handling (a fetch event, the settling of its chain
\* or of a detached put or refresh) changes or deletes another store.
C20_OnlyExpectedKeys ==
    /\ [](\A k \in StoredKeys(content, CACHE_NAME) :
             \/ k \in ManifestUrls
             \/ \E req \in Requests :
                   /\ req.url = k
                   /\ req.method = "GET"
                   /\ UrlOrigin(k) = SelfOrigin
                   /\ ~Some(NEVER_CACHE, k)
                   /\ Some(CACHEABLE_PATTERNS, k))
    /\ [][(events' # events \/ inflight' # inflight \/ tasks' # tasks)
             => \A n \in StoreNames \ {CACHE_NAME} :
                   /\ content'[n] = content[n]
                   /\ Has(cacheNames', n) = Has(cacheNames, n)]_vars

====
